---- MODULE Spec2Model ----
(***************************************************************************)
(* QueueCTL: a SQLite-backed job queue (src/queuectl).                     *)
(*                                                                         *)
(* The store is the jobs table and the dlq table of db.py.  Every db.py    *)
(* function commits on its own, so every call a worker makes is one        *)
(* atomic step and other processes may run between two calls.             *)
(* Time is the wall clock in whole seconds, the precision at which the     *)
(* SQL predicates compare (datetime(...) drops the fraction).              *)
(* A nullable column holds {} for NULL and {v} for the value v.            *)
(***************************************************************************)
EXTENDS Integers, Sequences, FiniteSets, TLC

\* ------------------------------------------------------------ bounds
\* The clock runs from 0 to MaxTime.
MaxTime == 3
\* The lock_lease_seconds the operator has configured (config set), in the
\* seconds of the model's clock.
LeaseSeconds == 1
\* The largest max_retries a job is enqueued with under Spec.
MaxRetries == 2
\* The largest max_retries a job is enqueued with under SpecSolo.
SoloMaxRetries == 3

\* The worker processes (their pids) and the operator's job ids.
Workers == {101, 102}
SoloWorkers == {101}
JobIds == {"a"}

NULL == {}
Some(v) == {v}

\* ------------------------------------------------------ config.py
\* A config value is a string: the sequence of its characters.
Digits == <<"0", "1", "2", "3", "4", "5", "6", "7", "8", "9">>

DigitValue(c) == (CHOOSE i \in 1..10 : Digits[i] = c) - 1

\* int(value), for a value made of digits
RECURSIVE ParseInt(_)
ParseInt(str) ==
    IF Len(str) = 0 THEN 0
    ELSE 10 * ParseInt(SubSeq(str, 1, Len(str) - 1)) + DigitValue(str[Len(str)])

\* str(n), the value "config set" is given for the number n
RECURSIVE ToStr(_)
ToStr(n) ==
    IF n < 10 THEN <<Digits[n + 1]>>
    ELSE Append(ToStr(n \div 10), Digits[(n % 10) + 1])

DEFAULT_CONFIG ==
    [max_retries |-> <<"3">>,
     backoff_base |-> <<"2">>,
     max_backoff_seconds |-> <<"3", "0", "0">>,
     lock_lease_seconds |-> <<"3", "0", "0">>,
     job_timeout_seconds |-> <<"3", "6", "0", "0">>]

\* Config.get: the row of the config table, else the default, else None
Config_get(cfg, key) ==
    IF key \in DOMAIN cfg THEN Some(cfg[key])
    ELSE IF key \in DOMAIN DEFAULT_CONFIG THEN Some(DEFAULT_CONFIG[key])
    ELSE NULL

\* Config.get_int: int(value) if value else 0
Config_get_int(cfg, key) ==
    IF \E v \in Config_get(cfg, key) : Len(v) > 0
    THEN ParseInt(CHOOSE v \in Config_get(cfg, key) : TRUE)
    ELSE 0

\* Config.set as INSERT OR IGNORE: a key that has a row keeps its value
Config_set_if_absent(cfg, key, value) ==
    IF key \in DOMAIN cfg THEN cfg ELSE (key :> value) @@ cfg

\* Config.set: UPDATE, and INSERT when no row was updated
Config_set(cfg, key, value) ==
    IF key \in DOMAIN cfg THEN [cfg EXCEPT ![key] = value]
    ELSE (key :> value) @@ cfg

\* ------------------------------------------------------ the runner
\* exec.py execute_command: (exit_code, stdout, stderr) of a command.  The
\* runner is opaque: "true" exits 0, "false" exits 1, "flaky" does one or the
\* other, "hang" runs into the timeout, which the runner reports as -1.
RunnerResult(code) ==
    [exit_code |-> code,
     stdout |-> IF code = -1 THEN "" ELSE "out",
     stderr |-> IF code = 0 THEN "" ELSE IF code = -1 THEN "Command timeout" ELSE "err"]

execute_command(command) ==
    CASE command = "true" -> {RunnerResult(0)}
      [] command = "false" -> {RunnerResult(1)}
      [] command = "hang" -> {RunnerResult(-1)}
      [] OTHER -> {RunnerResult(0), RunnerResult(1)}

NoResult == [exit_code |-> 0, stdout |-> "", stderr |-> "none"]

\* worker.py _execute_job line 117: f"Exit code {exit_code}: {stderr}"
ErrorMsg(res) == <<"Exit code", res.exit_code, res.stderr>>

\* worker.py line 161: f"Max retries exceeded: {error}"
DlqReason(error) == <<"Max retries exceeded: ">> \o error

\* ------------------------------------------------------ utils.py
RECURSIVE Pow(_, _)
Pow(b, e) == IF e = 0 THEN 1 ELSE b * Pow(b, e - 1)

Min(a, b) == IF a < b THEN a ELSE b

\* calculate_backoff without the cap
calculate_backoff_uncapped(attempts, base, max_backoff) == Pow(base, attempts)

\* calculate_backoff with a product in place of the power
calculate_backoff_linear(attempts, base, max_backoff) ==
    Min(base * attempts, max_backoff)

calculate_backoff(attempts, base, max_backoff) == Min(Pow(base, attempts), max_backoff)

\* calculate_retry_at, evaluated at time t
calculate_retry_at(t, attempts, base, max_backoff) ==
    t + calculate_backoff(attempts, base, max_backoff)

\* ------------------------------------------------------ db.py, rows
\* now_timestamp: datetime.utcnow().isoformat() + "Z" for the clock reading of
\* sec seconds and usec microseconds.  isoformat leaves the fraction out when
\* usec is 0, so the text is "<sec>Z" or "<sec>.<usec>Z", sec and usec being
\* digit fields of fixed width
now_timestamp(sec, usec) == [sec |-> sec, usec |-> usec]

\* the clock reading t1 is earlier than the clock reading t2
TimeBefore(t1, t2) ==
    \/ t1.sec < t2.sec
    \/ t1.sec = t2.sec /\ t1.usec < t2.usec

\* the text of t1 sorts before the text of t2 (SQLite's order on a TEXT
\* column): the fields compare as numbers, and '.' sorts before 'Z'
TextBefore(t1, t2) ==
    \/ t1.sec < t2.sec
    \/ /\ t1.sec = t2.sec
       /\ \/ t1.usec # 0 /\ t2.usec = 0
          \/ t1.usec # 0 /\ t2.usec # 0 /\ t1.usec < t2.usec

\* NewJob that leaves max_retries to the column's DEFAULT 3
NewJobDefaultRetries(command, max_retries, priority, run_at, created) ==
    [command |-> command, state |-> "pending", attempts |-> 0,
     max_retries |-> 3, created_at |-> created,
     retry_at |-> NULL, run_at |-> run_at, priority |-> priority,
     locked_by |-> NULL, locked_at |-> NULL, last_error |-> NULL,
     stdout_log |-> NULL, stderr_log |-> NULL, exit_code |-> NULL,
     completed_at |-> NULL]

\* insert_job's INSERT: the row of a new job
NewJob(command, max_retries, priority, run_at, created) ==
    [command |-> command, state |-> "pending", attempts |-> 0,
     max_retries |-> max_retries, created_at |-> created,
     retry_at |-> NULL, run_at |-> run_at, priority |-> priority,
     locked_by |-> NULL, locked_at |-> NULL, last_error |-> NULL,
     stdout_log |-> NULL, stderr_log |-> NULL, exit_code |-> NULL,
     completed_at |-> NULL]

\* insert_job as INSERT OR REPLACE: a row of the same id is overwritten
insert_or_replace_job(js, job_id, command, max_retries, priority, run_at, created) ==
    [ok |-> TRUE,
     jobs |-> (job_id :> NewJob(command, max_retries, priority, run_at,
                                created)) @@ js]

\* insert_job with the clock reading `created`: id is the PRIMARY KEY, and an
\* INSERT of an id the table has raises IntegrityError
insert_job(js, job_id, command, max_retries, priority, run_at, created) ==
    IF job_id \in DOMAIN js THEN [ok |-> FALSE, jobs |-> js]
    ELSE [ok |-> TRUE,
          jobs |-> (job_id :> NewJob(command, max_retries, priority, run_at,
                                     created)) @@ js]

\* the default of list_jobs' limit
ListLimit == 100

\* get_job: the row, or None
get_job(js, job_id) == IF job_id \in DOMAIN js THEN Some(js[job_id]) ELSE NULL

\* list_jobs: the ids of the first `limit` rows in the order created_at DESC,
\* of the given state when one is given
list_jobs(js, state, limit) ==
    LET matching == {id \in DOMAIN js : state = NULL \/ state = Some(js[id].state)}
        Newer(id) == {o \in matching \ {id} :
                        TextBefore(js[id].created_at, js[o].created_at)}
    IN {id \in matching : Cardinality(Newer(id)) < limit}

\* get_job_counts: GROUP BY state, a count for each state some row has
get_job_counts(js) ==
    [st \in {js[id].state : id \in DOMAIN js} |->
        Cardinality({id \in DOMAIN js : js[id].state = st})]

\* UPDATE jobs SET ... WHERE id = ?: no row, no change
UpdateRow(js, id, row) == IF id \in DOMAIN js THEN [js EXCEPT ![id] = row] ELSE js

\* update_job_state whose UPDATE matches no row
update_job_state_no_row(js, id, state) == js

update_job_state(js, id, state) ==
    IF id \in DOMAIN js THEN [js EXCEPT ![id].state = state] ELSE js

\* increment_job_attempts that adds 2
increment_job_attempts_twice(js, id) ==
    IF id \in DOMAIN js THEN [js EXCEPT ![id].attempts = @ + 2] ELSE js

increment_job_attempts(js, id) ==
    IF id \in DOMAIN js THEN [js EXCEPT ![id].attempts = @ + 1] ELSE js

update_job_error(js, id, error) ==
    IF id \in DOMAIN js THEN [js EXCEPT ![id].last_error = Some(error)] ELSE js

set_job_retry_at(js, id, retry_at) ==
    IF id \in DOMAIN js THEN [js EXCEPT ![id].retry_at = Some(retry_at)] ELSE js

\* unlock_job that leaves locked_at in place
unlock_job_keeps_locked_at(js, id) ==
    IF id \in DOMAIN js THEN [js EXCEPT ![id].locked_by = NULL] ELSE js

unlock_job(js, id) ==
    IF id \in DOMAIN js
    THEN [js EXCEPT ![id].locked_by = NULL, ![id].locked_at = NULL]
    ELSE js

update_job_output(js, id, res) ==
    IF id \in DOMAIN js
    THEN [js EXCEPT ![id].stdout_log = Some(res.stdout),
                    ![id].stderr_log = Some(res.stderr),
                    ![id].exit_code = Some(res.exit_code)]
    ELSE js

update_job_completed_at(js, id, t) ==
    IF id \in DOMAIN js THEN [js EXCEPT ![id].completed_at = Some(t)] ELSE js

\* ------------------------------------------- db.py pick_pending_job
\* LockExpired with the lease left out of the comparison
LockExpiredNoLease(row, t, lock_seconds) ==
    \E la \in row.locked_at : la < t

\* datetime(locked_at) < datetime('now', '-' || lock_seconds || ' seconds')
LockExpired(row, t, lock_seconds) ==
    \E la \in row.locked_at : la < t - lock_seconds

\* The text of a run_at is modelled by the second it names; BadTimestamp
\* stands for a text that names none ("tomorrow", "not-a-time")
BadTimestamp == -1

\* SQLite's datetime(text): NULL for a text it cannot parse
datetime(ts) == IF ts = BadTimestamp THEN NULL ELSE Some(ts)

\* datetime(run_at) <= datetime('now'); a comparison with NULL is not true
RunAtDue(row, t) == \E ra \in row.run_at : \E d \in datetime(ra) : d <= t

\* Eligible without the test of the state
EligibleAnyState(row, t, lock_seconds) ==
    /\ (row.run_at = NULL \/ RunAtDue(row, t))
    /\ (row.locked_by = NULL \/ LockExpiredNoLease(row, t, lock_seconds))

\* Eligible without the test of run_at
EligibleIgnoringRunAt(row, t, lock_seconds) ==
    /\ row.state = "pending"
    /\ (row.locked_by = NULL \/ LockExpired(row, t, lock_seconds))

\* the WHERE clause of the SELECT
Eligible(row, t, lock_seconds) ==
    /\ row.state = "pending"
    /\ (row.run_at = NULL \/ RunAtDue(row, t))
    /\ (row.locked_by = NULL \/ LockExpired(row, t, lock_seconds))

\* the ORDER BY clause: TRUE when row r1 sorts before row r2
UrgencyClass(row) == IF row.priority > 0 THEN 0 ELSE 1

SortsBefore(r1, r2) ==
    \/ UrgencyClass(r1) < UrgencyClass(r2)
    \/ /\ UrgencyClass(r1) = UrgencyClass(r2)
       /\ r1.priority > r2.priority
    \/ /\ UrgencyClass(r1) = UrgencyClass(r2)
       /\ r1.priority = r2.priority
       /\ TextBefore(r1.created_at, r2.created_at)

EligibleIds(js, t, lock_seconds) ==
    {id \in DOMAIN js : Eligible(js[id], t, lock_seconds)}

\* SELECT ... LIMIT 1: the ids the query may return (one, the created_at of
\* two rows being different; none when no row is eligible)
SelectPending(js, t, lock_seconds) ==
    {id \in EligibleIds(js, t, lock_seconds) :
        \A other \in EligibleIds(js, t, lock_seconds) \ {id} :
            ~SortsBefore(js[other], js[id])}

\* LockRow that leaves locked_at as it was
LockRowKeepsLockedAt(row, worker_pid, t) ==
    [row EXCEPT !.locked_by = Some(worker_pid), !.state = "processing"]

\* the UPDATE that locks the selected row
LockRow(row, worker_pid, t) ==
    [row EXCEPT !.locked_by = Some(worker_pid), !.locked_at = Some(t),
                !.state = "processing"]

\* pick_pending_job as one call: what it may return (the row as get_job reads
\* it after the commit, or None) with the jobs table after it
pick_pending_job(js, worker_pid, t, lock_seconds) ==
    IF SelectPending(js, t, lock_seconds) = {}
    THEN {[job |-> NULL, jobs |-> js]}
    ELSE {[job |-> Some([id |-> id, row |-> LockRow(js[id], worker_pid, t)]),
           jobs |-> [js EXCEPT ![id] = LockRow(js[id], worker_pid, t)]] :
            id \in SelectPending(js, t, lock_seconds)}

\* ------------------------------------------------- scheduler.py
move_ready_jobs_to_pending(js, t) ==
    [id \in DOMAIN js |->
        IF /\ js[id].state = "pending"
           /\ \E ra \in js[id].retry_at : ra < t
        THEN [js[id] EXCEPT !.state = "pending", !.locked_by = NULL, !.locked_at = NULL]
        ELSE js[id]]

\* cleanup_expired_locks without the test of locked_at
cleanup_all_locks(js, t, lock_seconds) ==
    [id \in DOMAIN js |->
        IF js[id].state = "processing"
        THEN [js[id] EXCEPT !.locked_by = NULL, !.locked_at = NULL, !.state = "pending"]
        ELSE js[id]]

\* cursor.rowcount of cleanup_expired_locks' UPDATE: what the call returns
cleanup_expired_locks_count(js, t, lock_seconds) ==
    Cardinality({id \in DOMAIN js : /\ js[id].state = "processing"
                                     /\ LockExpired(js[id], t, lock_seconds)})

cleanup_expired_locks(js, t, lock_seconds) ==
    [id \in DOMAIN js |->
        IF /\ js[id].state = "processing"
           /\ LockExpired(js[id], t, lock_seconds)
        THEN [js[id] EXCEPT !.locked_by = NULL, !.locked_at = NULL, !.state = "pending"]
        ELSE js[id]]

\* ------------------------------------------------- db.py, the dlq
\* the INSERT of move_to_dlq: payload is the row get_job returned
DlqEntry(entry_id, job_id, t, reason, payload) ==
    [id |-> entry_id, job_id |-> job_id, moved_at |-> t,
     reason |-> reason, payload |-> payload]

\* str(uuid.uuid4()): an id no entry of the table has
NewEntryId(d) == CHOOSE n \in 1..(Cardinality(d) + 1) : \A e \in d : e.id # n

\* get_dlq_job: is there an entry for the job
InDlq(d, job_id) == \E e \in d : e.job_id = job_id

\* RequeueRow that leaves attempts in place
RequeueRowKeepsAttempts(row) ==
    [row EXCEPT !.state = "pending", !.locked_by = NULL,
                !.locked_at = NULL, !.retry_at = NULL]

\* RequeueRow that clears locked_by and leaves locked_at
RequeueRowKeepsLockedAt(row) ==
    [row EXCEPT !.state = "pending", !.attempts = 0, !.locked_by = NULL,
                !.retry_at = NULL]

\* RequeueRow that also sets max_retries back to the default
RequeueRowResetsMaxRetries(row) ==
    [row EXCEPT !.state = "pending", !.attempts = 0, !.locked_by = NULL,
                !.locked_at = NULL, !.retry_at = NULL, !.max_retries = 3]

\* requeue_from_dlq's UPDATE
RequeueRow(row) ==
    [row EXCEPT !.state = "pending", !.attempts = 0, !.locked_by = NULL,
                !.locked_at = NULL, !.retry_at = NULL]

\* move_to_dlq as one call with nothing running in between: the tables after
\* it
move_to_dlq(js, d, id, reason, t) ==
    IF id \notin DOMAIN js THEN [jobs |-> js, dlq |-> d]
    ELSE [jobs |-> update_job_state(js, id, "dead"),
          dlq |-> d \cup {DlqEntry(NewEntryId(d), id, t, reason, js[id])}]

\* requeue_from_dlq as one call with nothing running in between: what it
\* returns and the tables after it
requeue_from_dlq(js, d, id) ==
    IF ~InDlq(d, id) THEN [ok |-> FALSE, jobs |-> js, dlq |-> d]
    ELSE [ok |-> TRUE,
          jobs |-> UpdateRow(js, id, RequeueRow(js[id])),
          dlq |-> {e \in d : e.job_id # id}]


\* delete_job: DELETE FROM jobs WHERE id = ?. dlq.job_id REFERENCES jobs(id)
\* and the connection has foreign_keys = ON: the DELETE of a job that has a
\* dlq entry raises IntegrityError and the table is as it was
delete_job(js, d, id) ==
    IF id \in DOMAIN js /\ ~InDlq(d, id)
    THEN [i \in DOMAIN js \ {id} |-> js[i]]
    ELSE js

\* ------------------------------------------------- cli.py enqueue
\* An argument of the command is NULL when it is not given (the option is
\* absent, the JSON object has no such key), else Some(value).
ValueOf(arg) == CHOOSE v \in arg : TRUE

\* Python's `not x` for a string argument: None or ""
Falsy(arg) == arg = NULL \/ arg = Some("")

\* the max_retries handed to insert_job (lines 87 and 94)
final_retries(form, retries, cfg) ==
    IF form = "json"
    THEN (IF retries = NULL THEN Config_get_int(cfg, "max_retries")
          ELSE ValueOf(retries))
    ELSE (IF retries = NULL \/ retries = Some(0)
          THEN Config_get_int(cfg, "max_retries")
          ELSE ValueOf(retries))

\* PriorityInRange without the upper end
PriorityNotNegative(priority) == 0 <= priority

\* the priority test of lines 102-105
PriorityInRange(priority) == 0 <= priority /\ priority <= 10

\* the command as one call: its exit code and the jobs table after it.
\* uuid is what uuid.uuid4() returns, created the clock reading of insert_job
enqueue(js, cfg, form, job_id, command, retries, priority, run_at, uuid, created) ==
    LET Rejected == [code |-> 1, jobs |-> js]
        final_id == IF Falsy(job_id) THEN uuid ELSE ValueOf(job_id)
        final_priority == IF priority = NULL THEN 0 ELSE ValueOf(priority)
    IN  IF form = "option" /\ (Falsy(job_id) \/ Falsy(command)) THEN Rejected
        ELSE IF Falsy(command) THEN Rejected
        ELSE IF ~PriorityInRange(final_priority) THEN Rejected
        ELSE LET ins == insert_job(js, final_id, ValueOf(command),
                                   final_retries(form, retries, cfg),
                                   final_priority, run_at, created)
             IN  IF ins.ok THEN [code |-> 0, jobs |-> ins.jobs] ELSE Rejected

\* ------------------------------------------------------------ state
VARIABLES
    jobs,       \* the jobs table: job id -> row
    config,     \* the config table: key -> value
    dlq,        \* the dlq table: a set of entries
    now,        \* the wall clock, in seconds
    pc,         \* per worker: the call of Worker.run it makes next
    wjob,       \* per worker: job_id of the job it picked ("" when it has none)
    wres,       \* per worker: what execute_command returned
    wread,      \* per worker: attempts and max_retries of _handle_job_failure's get_job
    wsnap,      \* per worker: the row move_to_dlq's get_job returned
    werr,       \* per worker: the message of the exception _handle_job_error is handling
    rq,         \* per dlq retry caller: the job ids whose dlq entry its running
                \* requeue_from_dlq has found
    shutdown,   \* the workers whose shutdown_requested is True
    handed,     \* history: per job, the claims that returned it since it was last pending
    claimedAt,  \* history: per worker, the time of its last successful claim
    overrun     \* history: some worker has held a job past its lease

vars == <<jobs, config, dlq, now, pc, wjob, wres, wread, wsnap, werr, rq,
          shutdown, handed, claimedAt, overrun>>

store == <<jobs, dlq>>
locals == <<wjob, wres, wread, wsnap>>

NoRead == [attempts |-> 0, max_retries |-> 0]

\* A worker is between a successful claim and the write of the job's new state
Holding == {"increment", "execute", "output", "s_state", "f_get", "f_error",
            "f_retry_at", "f_state", "f_dlq_get", "f_dlq_write"}

Holds(w, id) == pc[w] \in Holding /\ wjob[w] = id

\* the shells that run `queuectl dlq retry`: each command is its own process
\* with its own connection
Operator == "operator"
SecondOperator == "operator2"
RetryCallers == {Operator, SecondOperator}

\* An empty queue, the operator having set lock_lease_seconds
Init ==
    /\ jobs = <<>>
    /\ config = ("lock_lease_seconds" :> ToStr(LeaseSeconds))
    /\ dlq = {}
    /\ now = 0
    /\ pc = [w \in Workers |-> "idle"]
    /\ wjob = [w \in Workers |-> ""]
    /\ wres = [w \in Workers |-> NoResult]
    /\ wread = [w \in Workers |-> NoRead]
    /\ wsnap = [w \in Workers |-> NULL]
    /\ werr = [w \in Workers |-> NULL]
    /\ rq = [c \in RetryCallers |-> {}]
    /\ shutdown = {}
    /\ handed = <<>>
    /\ claimedAt = [w \in Workers |-> 0]
    /\ overrun = FALSE

\* The history variables after a step: claimed is the set of job ids the step's
\* claim returned (empty for a step that is no claim).
History(claimed) ==
    /\ handed' = [id \in DOMAIN jobs' |->
                    IF jobs'[id].state = "pending" THEN 0
                    ELSE (IF id \in DOMAIN handed THEN handed[id] ELSE 0)
                         + (IF id \in claimed THEN 1 ELSE 0)]
    /\ overrun' = (overrun \/ \E w \in Workers :
                                /\ pc'[w] \in Holding
                                /\ claimedAt'[w] + Config_get_int(config', "lock_lease_seconds") < now')

\* the worker goes back to the top of its loop and tests shutdown_requested
\* (worker.py line 65): "idle" is a worker that passed the test and is in
\* _process_one_job, "stopped" one whose run has returned
Return(w) ==
    /\ pc' = [pc EXCEPT ![w] = IF w \in shutdown THEN "stopped" ELSE "idle"]
    /\ wjob' = [wjob EXCEPT ![w] = ""]
    /\ wres' = [wres EXCEPT ![w] = NoResult]
    /\ wread' = [wread EXCEPT ![w] = NoRead]
    /\ wsnap' = [wsnap EXCEPT ![w] = NULL]
    /\ werr' = [werr EXCEPT ![w] = NULL]
    /\ claimedAt' = [claimedAt EXCEPT ![w] = 0]

\* --------------------------------------------------------- the clock
Tick ==
    /\ now < MaxTime
    /\ now' = now + 1
    /\ UNCHANGED <<shutdown, werr, store, config, pc, locals, rq, claimedAt>>
    /\ History({})

\* ------------------------------------------ cli.py enqueue, insert_job
\* usec is the microsecond at which insert_job reads the clock, later than
\* the reading of every insert before it
Enqueue(id, command, max_retries, priority, run_at, usec) ==
    /\ id \notin DOMAIN jobs
    /\ \A other \in DOMAIN jobs :
          TimeBefore(jobs[other].created_at, now_timestamp(now, usec))
    /\ jobs' = (id :> NewJob(command, max_retries, priority, run_at,
                             now_timestamp(now, usec))) @@ jobs
    /\ UNCHANGED <<shutdown, werr, dlq, config, now, pc, locals, rq, claimedAt>>
    /\ History({})

\* The enqueue command with its arguments as the operator gives them; a
\* command that is rejected changes nothing. The clock reading of insert_job
\* is later than that of every insert before it.
EnqueueCommand(form, job_id, command, retries, priority, run_at) ==
    LET created == now_timestamp(now, Cardinality(DOMAIN jobs) + 1)
        res == enqueue(jobs, config, form, job_id, command, retries, priority,
                       run_at, "uuid", created)
    IN  /\ res.code = 0
        /\ jobs' = res.jobs
        /\ UNCHANGED <<shutdown, werr, dlq, config, now, pc, locals, rq, claimedAt>>
        /\ History({})

\* ------------------------------------------------ worker.py, the loop
\* _process_one_job: pick_pending_job returned a job (when it returns None
\* the worker sleeps and nothing changes)
PickPendingJob(w) ==
    /\ pc[w] = "idle"
    /\ \E id \in SelectPending(jobs, now, Config_get_int(config, "lock_lease_seconds")) :
        /\ jobs' = [jobs EXCEPT ![id] = LockRow(jobs[id], w, now)]
        /\ pc' = [pc EXCEPT ![w] = "increment"]
        /\ wjob' = [wjob EXCEPT ![w] = id]
        /\ claimedAt' = [claimedAt EXCEPT ![w] = now]
        /\ UNCHANGED <<shutdown, werr, dlq, config, now, wres, wread, wsnap, rq>>
        /\ History({id})

\* _execute_job: increment_job_attempts(job_id)
IncrementAttempts(w) ==
    /\ pc[w] = "increment"
    /\ jobs' = increment_job_attempts(jobs, wjob[w])
    /\ pc' = [pc EXCEPT ![w] = "execute"]
    /\ UNCHANGED <<shutdown, werr, dlq, config, now, locals, rq, claimedAt>>
    /\ History({})

\* _execute_job: execute_command(command), command being that of the job dict
\* pick_pending_job returned
ExecuteCommand(w) ==
    /\ pc[w] = "execute"
    /\ wjob[w] \in DOMAIN jobs
    /\ \E res \in execute_command(jobs[wjob[w]].command) :
        wres' = [wres EXCEPT ![w] = res]
    /\ pc' = [pc EXCEPT ![w] = "output"]
    /\ UNCHANGED <<shutdown, werr, store, config, now, wjob, wread, wsnap, rq, claimedAt>>
    /\ History({})

\* _execute_job: update_job_output, then the branch on exit_code
UpdateOutput(w) ==
    /\ pc[w] = "output"
    /\ jobs' = update_job_output(jobs, wjob[w], wres[w])
    /\ pc' = [pc EXCEPT ![w] = IF wres[w].exit_code = 0 THEN "s_state" ELSE "f_get"]
    /\ UNCHANGED <<shutdown, werr, dlq, config, now, locals, rq, claimedAt>>
    /\ History({})

\* _handle_job_success: update_job_state(job_id, "completed")
SuccessState(w) ==
    /\ pc[w] = "s_state"
    /\ jobs' = update_job_state(jobs, wjob[w], "completed")
    /\ pc' = [pc EXCEPT ![w] = "s_completed_at"]
    /\ UNCHANGED <<shutdown, werr, dlq, config, now, locals, rq, claimedAt>>
    /\ History({})

\* _handle_job_success: update_job_completed_at(job_id)
SuccessCompletedAt(w) ==
    /\ pc[w] = "s_completed_at"
    /\ jobs' = update_job_completed_at(jobs, wjob[w], now)
    /\ pc' = [pc EXCEPT ![w] = "s_unlock"]
    /\ UNCHANGED <<shutdown, werr, dlq, config, now, locals, rq, claimedAt>>
    /\ History({})

\* _handle_job_success: unlock_job(job_id)
SuccessUnlock(w) ==
    /\ pc[w] = "s_unlock"
    /\ jobs' = unlock_job(jobs, wjob[w])
    /\ Return(w)
    /\ UNCHANGED <<shutdown, dlq, config, now, rq>>
    /\ History({})

\* _handle_job_failure: job = get_job(job_id)
FailureGet(w) ==
    /\ pc[w] = "f_get"
    /\ wjob[w] \in DOMAIN jobs
    /\ wread' = [wread EXCEPT ![w] = [attempts |-> jobs[wjob[w]].attempts,
                                      max_retries |-> jobs[wjob[w]].max_retries]]
    /\ pc' = [pc EXCEPT ![w] = "f_error"]
    /\ UNCHANGED <<shutdown, werr, store, config, now, wjob, wres, wsnap, rq, claimedAt>>
    /\ History({})

\* ShouldRetry off by one
ShouldRetryInclusive(attempts, max_retries) == attempts <= max_retries

\* _handle_job_failure line 144: if attempts < max_retries
ShouldRetry(attempts, max_retries) == attempts < max_retries

\* the error _handle_job_failure is called with: that of _execute_job (line
\* 117), or str(e) when _handle_job_error calls it (line 92)
FailureMessage(w) ==
    IF werr[w] = NULL THEN ErrorMsg(wres[w]) ELSE CHOOSE e \in werr[w] : TRUE

\* _handle_job_failure: update_job_error(job_id, error), then the branch
FailureError(w) ==
    /\ pc[w] = "f_error"
    /\ jobs' = update_job_error(jobs, wjob[w], FailureMessage(w))
    /\ pc' = [pc EXCEPT ![w] = IF ShouldRetry(wread[w].attempts, wread[w].max_retries)
                                THEN "f_retry_at" ELSE "f_dlq_get"]
    /\ UNCHANGED <<shutdown, werr, dlq, config, now, locals, rq, claimedAt>>
    /\ History({})

\* _handle_job_failure lines 146-148: the retry_at of a failed attempt
RetryAt(cfg, t, attempts) ==
    calculate_retry_at(t, attempts, Config_get_int(cfg, "backoff_base"),
                       Config_get_int(cfg, "max_backoff_seconds"))

\* _handle_job_failure: set_job_retry_at(job_id, calculate_retry_at(attempts, ...))
FailureRetryAt(w) ==
    /\ pc[w] = "f_retry_at"
    /\ jobs' = set_job_retry_at(jobs, wjob[w], RetryAt(config, now, wread[w].attempts))
    /\ pc' = [pc EXCEPT ![w] = "f_state"]
    /\ UNCHANGED <<shutdown, werr, dlq, config, now, locals, rq, claimedAt>>
    /\ History({})

\* _handle_job_failure: update_job_state(job_id, "pending")
FailureState(w) ==
    /\ pc[w] = "f_state"
    /\ jobs' = update_job_state(jobs, wjob[w], "pending")
    /\ pc' = [pc EXCEPT ![w] = "f_unlock"]
    /\ UNCHANGED <<shutdown, werr, dlq, config, now, locals, rq, claimedAt>>
    /\ History({})

\* _handle_job_failure: unlock_job(job_id)
FailureUnlock(w) ==
    /\ pc[w] = "f_unlock"
    /\ jobs' = unlock_job(jobs, wjob[w])
    /\ Return(w)
    /\ UNCHANGED <<shutdown, dlq, config, now, rq>>
    /\ History({})

\* move_to_dlq: job = get_job(job_id), read before the write transaction opens
DlqGet(w) ==
    /\ pc[w] = "f_dlq_get"
    /\ wjob[w] \in DOMAIN jobs
    /\ wsnap' = [wsnap EXCEPT ![w] = Some(jobs[wjob[w]])]
    /\ pc' = [pc EXCEPT ![w] = "f_dlq_write"]
    /\ UNCHANGED <<shutdown, werr, store, config, now, wjob, wres, wread, rq, claimedAt>>
    /\ History({})

\* move_to_dlq: the INSERT into dlq and the UPDATE to 'dead', one commit
DlqWrite(w) ==
    /\ pc[w] = "f_dlq_write"
    /\ wjob[w] \in DOMAIN jobs
    /\ \E snap \in wsnap[w] :
        dlq' = dlq \cup {DlqEntry(NewEntryId(dlq), wjob[w], now,
                                  DlqReason(FailureMessage(w)), snap)}
    /\ jobs' = update_job_state(jobs, wjob[w], "dead")
    /\ Return(w)
    /\ UNCHANGED <<shutdown, config, now, rq>>
    /\ History({})

\* SIGKILL (cli.py stop, line 216): the process is gone wherever it was, and
\* its memory with it
Kill(w) ==
    /\ pc[w] # "dead"
    /\ pc' = [pc EXCEPT ![w] = "dead"]
    /\ wjob' = [wjob EXCEPT ![w] = ""]
    /\ wres' = [wres EXCEPT ![w] = NoResult]
    /\ wread' = [wread EXCEPT ![w] = NoRead]
    /\ wsnap' = [wsnap EXCEPT ![w] = NULL]
    /\ werr' = [werr EXCEPT ![w] = NULL]
    /\ claimedAt' = [claimedAt EXCEPT ![w] = 0]
    /\ UNCHANGED <<shutdown, store, config, now, rq>>
    /\ History({})

\* A database call of _execute_job raises (sqlite3.OperationalError: the
\* statement writes nothing): _process_one_job catches it and calls
\* _handle_job_error, whose get_job and _handle_job_failure follow
DatabaseError == <<"database is locked">>

InExecuteJob == {"increment", "output", "s_state", "s_completed_at", "s_unlock",
                 "f_get", "f_error", "f_retry_at", "f_state", "f_unlock",
                 "f_dlq_get", "f_dlq_write"}

RaiseInJob(w) ==
    /\ pc[w] \in InExecuteJob
    /\ werr[w] = NULL
    /\ werr' = [werr EXCEPT ![w] = Some(DatabaseError)]
    /\ pc' = [pc EXCEPT ![w] = "f_get"]
    /\ UNCHANGED <<shutdown, store, config, now, wjob, wres, wread, wsnap, rq, claimedAt>>
    /\ History({})

\* A database call of _handle_job_error raises: the exception leaves
\* _process_one_job, run logs it and sleeps, and the loop goes on
RaiseInHandler(w) ==
    /\ pc[w] \in InExecuteJob
    /\ werr[w] # NULL
    /\ Return(w)
    /\ UNCHANGED <<shutdown, store, config, now, rq>>
    /\ History({})

\* SIGTERM or SIGINT reaches a running worker: _handle_shutdown sets the flag
\* and the interrupted call goes on
Signal(w) ==
    /\ pc[w] \notin {"dead", "stopped"}
    /\ w \notin shutdown
    /\ shutdown' = shutdown \cup {w}
    /\ UNCHANGED <<store, config, now, pc, locals, werr, rq, claimedAt>>
    /\ History({})

\* pick_pending_job returned None, the worker slept and the test of the loop
\* found the flag set: run returns
LoopExit(w) ==
    /\ pc[w] = "idle"
    /\ w \in shutdown
    /\ pc' = [pc EXCEPT ![w] = "stopped"]
    /\ UNCHANGED <<store, config, now, locals, werr, rq, shutdown, claimedAt>>
    /\ History({})

\* ------------------------------------------- cli.py status, scheduler.py
MoveReadyJobsToPending ==
    /\ jobs' = move_ready_jobs_to_pending(jobs, now)
    /\ UNCHANGED <<shutdown, werr, dlq, config, now, pc, locals, rq, claimedAt>>
    /\ History({})

CleanupExpiredLocks ==
    /\ jobs' = cleanup_expired_locks(jobs, now, Config_get_int(config, "lock_lease_seconds"))
    /\ UNCHANGED <<shutdown, werr, dlq, config, now, pc, locals, rq, claimedAt>>
    /\ History({})

\* ------------------------------------------- db.py delete_job
\* The administrative delete, of a job that no worker is running and no
\* requeue is working on
DeleteJob(id) ==
    /\ \A w \in Workers : wjob[w] # id
    /\ \A c \in RetryCallers : id \notin rq[c]
    /\ jobs' = delete_job(jobs, dlq, id)
    /\ UNCHANGED <<shutdown, werr, dlq, config, now, pc, locals, rq, claimedAt>>
    /\ History({})

\* ------------------------------------------- cli.py config set
ConfigSet(key, value) ==
    /\ config' = Config_set(config, key, value)
    /\ UNCHANGED <<shutdown, werr, store, now, pc, locals, rq, claimedAt>>
    /\ History({})

\* ------------------------------------- cli.py dlq retry, requeue_from_dlq
\* get_dlq_job found an entry (when it finds none the call returns False and
\* nothing changes)
RequeueLookup(c, id) ==
    /\ id \notin rq[c]
    /\ InDlq(dlq, id)
    /\ rq' = [rq EXCEPT ![c] = @ \cup {id}]
    /\ UNCHANGED <<shutdown, werr, store, config, now, pc, locals, claimedAt>>
    /\ History({})

\* the UPDATE of the job row and the DELETE of its dlq entries, one commit
RequeueWrite(c, id) ==
    /\ id \in rq[c]
    /\ jobs' = UpdateRow(jobs, id, RequeueRow(jobs[id]))
    /\ dlq' = {e \in dlq : e.job_id # id}
    /\ rq' = [rq EXCEPT ![c] = @ \ {id}]
    /\ UNCHANGED <<shutdown, werr, config, now, pc, locals, claimedAt>>
    /\ History({})

\* ------------------------------------------------- specifications
WorkerStep(w) ==
    \/ PickPendingJob(w)
    \/ IncrementAttempts(w)
    \/ ExecuteCommand(w)
    \/ UpdateOutput(w)
    \/ SuccessState(w)
    \/ SuccessCompletedAt(w)
    \/ SuccessUnlock(w)
    \/ FailureGet(w)
    \/ FailureError(w)
    \/ FailureRetryAt(w)
    \/ FailureState(w)
    \/ FailureUnlock(w)
    \/ DlqGet(w)
    \/ DlqWrite(w)

Maintenance ==
    \/ MoveReadyJobsToPending
    \/ CleanupExpiredLocks

Requeue ==
    \E id \in JobIds : RequeueLookup(Operator, id) \/ RequeueWrite(Operator, id)

\* a requeue_from_dlq call on id commits its UPDATE and DELETE (and returns True)
RequeueReturnsTrue(id) ==
    \E c \in RetryCallers : id \in rq[c] /\ id \notin rq'[c]

Commands == {"true", "false", "flaky", "hang"}

\* Workers 101 and 102, either of which may be killed
Next ==
    \/ Tick
    \/ \E id \in JobIds, mr \in {0, MaxRetries}, c \in {"flaky", "hang"} :
          Enqueue(id, c, mr, 0, NULL, 1)
    \/ \E w \in Workers : WorkerStep(w)
    \/ \E w \in Workers : Kill(w)
    \/ Maintenance
    \/ Requeue

Spec == Init /\ [][Next]_vars

\* One worker that is never killed; the operator may lower max_backoff_seconds
SoloNext ==
    \/ Tick
    \/ ConfigSet("max_backoff_seconds", <<"3">>)
    \/ \E id \in JobIds, mr \in 0..SoloMaxRetries, c \in Commands :
          Enqueue(id, c, mr, 0, NULL, 1)
    \/ \E w \in SoloWorkers : WorkerStep(w)
    \/ Maintenance
    \/ Requeue

SpecSolo == Init /\ [][SoloNext]_vars

\* Two workers and two jobs with a priority each: job a, which fails, enqueued
\* at a whole second, job b, which succeeds, within a second and with or
\* without run_at
Priorities == {0, 10}
SchedRunAt == 2

SchedNext ==
    \/ Tick
    \/ \E p \in Priorities : Enqueue("a", "false", MaxRetries, p, NULL, 0)
    \/ \E p \in Priorities, ra \in {NULL, Some(SchedRunAt)} :
          Enqueue("b", "true", 0, p, ra, 500000)
    \/ \E w \in Workers : WorkerStep(w)

SpecSched == Init /\ [][SchedNext]_vars

\* Two workers, job a, which fails, and job b, which succeeds, and an
\* operator who runs status
MaintNext ==
    \/ Tick
    \/ \E mr \in {0, MaxRetries} : Enqueue("a", "false", mr, 0, NULL, 0)
    \/ Enqueue("b", "true", 0, 0, NULL, 500000)
    \/ \E w \in Workers : WorkerStep(w)
    \/ CleanupExpiredLocks

SpecMaint == Init /\ [][MaintNext]_vars

\* Worker.run, lines 65-71: a worker that is not killed goes on making the
\* next call of its loop; and the clock goes on
Fairness ==
    /\ WF_vars(Tick)
    /\ \A w \in Workers : WF_vars(WorkerStep(w))

\* Two workers, of which 101 may be killed, and no operator command other
\* than enqueue: nobody runs status or dlq retry
AutoNext ==
    \/ Tick
    \/ \E id \in JobIds, c \in {"flaky", "hang"} :
          Enqueue(id, c, MaxRetries, 0, NULL, 1)
    \/ \E w \in Workers : WorkerStep(w)
    \/ Kill(101)

SpecAuto == Init /\ [][AutoNext]_vars /\ Fairness

\* Two workers that are never killed, and every operator command
LiveNext ==
    \/ Tick
    \/ \E id \in JobIds, c \in {"flaky", "hang"}, ra \in {NULL, Some(SchedRunAt)} :
          Enqueue(id, c, MaxRetries, 0, ra, 1)
    \/ \E w \in Workers : WorkerStep(w)
    \/ Maintenance
    \/ Requeue

SpecLive == Init /\ [][LiveNext]_vars /\ Fairness

\* One worker and the enqueue command in both its forms: job a, which fails,
\* with and without --retries, --priority and --run-at, and job b, which
\* succeeds, with none of them; the operator may set max_retries
Forms == {"json", "option"}
CliRetries == {NULL, Some(0), Some(1)}
CliPriorities == {NULL, Some(10), Some(11)}
CliRunAts == {NULL, Some(BadTimestamp)}

CliNext ==
    \/ Tick
    \/ ConfigSet("max_retries", <<"2">>)
    \/ \E form \in Forms, mr \in CliRetries, p \in CliPriorities, ra \in CliRunAts :
          EnqueueCommand(form, Some("a"), Some("false"), mr, p, ra)
    \/ EnqueueCommand("json", Some("b"), Some("true"), NULL, NULL, NULL)
    \/ \E w \in SoloWorkers : WorkerStep(w)

SpecCli == Init /\ [][CliNext]_vars

\* One worker and a job that fails or succeeds, while the operator sets backoff_base and
\* max_backoff_seconds to one value after another
ConfigKeys == {"backoff_base", "max_backoff_seconds"}
ConfigValues == {<<"2">>, <<"4">>, <<"1", "0">>}

ConfigNext ==
    \/ Tick
    \/ \E key \in ConfigKeys, value \in ConfigValues : ConfigSet(key, value)
    \/ \E mr \in {0, SoloMaxRetries} : Enqueue("a", "flaky", mr, 0, NULL, 1)
    \/ \E w \in SoloWorkers : WorkerStep(w)

SpecConfig == Init /\ [][ConfigNext]_vars

\* One worker whose database calls may raise, job a, and job b, which succeeds
FaultNext ==
    \/ Tick
    \/ \E mr \in {0, MaxRetries}, c \in {"true", "false"} :
          Enqueue("a", c, mr, 0, NULL, 1)
    \/ Enqueue("b", "true", 0, 0, NULL, 500000)
    \/ \E w \in SoloWorkers : WorkerStep(w)
    \/ \E w \in SoloWorkers : RaiseInJob(w)
    \/ \E w \in SoloWorkers : RaiseInHandler(w)

SpecFault == Init /\ [][FaultNext]_vars

\* Two workers, each of which may be sent SIGTERM once; a worker that is no
\* longer in a job and has its flag set leaves its loop
StopNext ==
    \/ Tick
    \/ \E id \in JobIds, mr \in {0, MaxRetries}, c \in {"true", "flaky"} :
          Enqueue(id, c, mr, 0, NULL, 1)
    \/ \E w \in Workers : WorkerStep(w)
    \/ \E w \in Workers : Signal(w)
    \/ \E w \in Workers : LoopExit(w)

SpecStop ==
    /\ Init /\ [][StopNext]_vars /\ Fairness
    /\ \A w \in Workers : WF_vars(LoopExit(w))


\* ------------------------------------------------------------ claims
DlqEntriesOf(id) == {e \in dlq : e.job_id = id}

\* C1: between two claims that return the same job the job went back to
\* pending: no job is handed out twice while it stays out of pending.
C1_ClaimHandsOutOnce ==
    \A id \in DOMAIN handed : handed[id] <= 1

\* C1 witness: two workers were both handed job a, the second after the job
\* had gone back to pending.
C1_Witness ==
    /\ Holds(101, "a") /\ Holds(102, "a")
    /\ handed["a"] = 1

C3_ProcessingIsLocked ==
    \A id \in DOMAIN jobs :
        jobs[id].state = "processing" =>
            (jobs[id].locked_by # NULL /\ jobs[id].locked_at # NULL)

\* C4: a job in completed or dead has locked_by null, after every commit.
C4_TerminalIsUnlocked ==
    \A id \in DOMAIN jobs :
        jobs[id].state \in {"completed", "dead"} => jobs[id].locked_by = NULL

\* C5: a job in dead has exactly one dlq entry, a job in any other state none.
C5_DeadIffOneEntry ==
    \A id \in DOMAIN jobs :
        Cardinality(DlqEntriesOf(id)) = IF jobs[id].state = "dead" THEN 1 ELSE 0

\* C6: attempts never exceeds max_retries + 1.
C6_AttemptsBounded ==
    \A id \in DOMAIN jobs : jobs[id].attempts <= jobs[id].max_retries + 1


\* The calls of _handle_job_failure (and of move_to_dlq, which it calls)
FailurePcs == {"f_get", "f_error", "f_retry_at", "f_state", "f_unlock",
               "f_dlq_get", "f_dlq_write"}

\* C7: a failed attempt (exit code not 0) makes the worker reload the job; with
\* attempts < max_retries it writes last_error and retry_at and sets the job
\* to pending, otherwise it moves the job to dead; no call of the failure
\* handling sets the job to completed, failed or processing.  (The fields
\* written are still in place when the job is set to pending unless a lease
\* was overrun and another process wrote the row in between.)
C7_FailureOutcome ==
    [][\A w \in Workers :
        LET id == wjob[w] IN
        /\ (pc[w] = "output" /\ pc'[w] \in {"s_state", "f_get"})
              => (pc'[w] = "f_get" <=> wres[w].exit_code # 0)
        /\ (pc[w] = "f_get" /\ pc'[w] = "f_error")
              => /\ wread'[w].attempts = jobs[id].attempts
                 /\ wread'[w].max_retries = jobs[id].max_retries
        /\ (pc[w] = "f_error" /\ pc'[w] \in {"f_retry_at", "f_dlq_get"})
              => /\ jobs'[id].last_error = Some(ErrorMsg(wres[w]))
                 /\ pc'[w] = IF wread[w].attempts < wread[w].max_retries
                             THEN "f_retry_at" ELSE "f_dlq_get"
        /\ (pc[w] = "f_retry_at" /\ pc'[w] = "f_state")
              => jobs'[id].retry_at # NULL
        /\ (pc[w] = "f_state" /\ pc'[w] = "f_unlock")
              => /\ jobs'[id].state = "pending"
                 /\ ~overrun => /\ jobs'[id].retry_at # NULL
                                /\ jobs'[id].last_error = Some(ErrorMsg(wres[w]))
        /\ (pc[w] = "f_dlq_write" /\ pc'[w] = "idle")
              => jobs'[id].state = "dead"
        /\ (pc[w] \in FailurePcs /\ pc'[w] \notin {pc[w], "dead"})
              => \/ jobs'[id].state \in {"pending", "dead"}
                 \/ jobs'[id].state = jobs[id].state
    ]_vars


\* C7 witness: a worker whose attempt timed out (exit code -1) has put the job
\* back to pending with retry_at and last_error written.
C7_Witness ==
    /\ pc[101] = "f_unlock" /\ wjob[101] = "a"
    /\ wres[101].exit_code = -1
    /\ jobs["a"].state = "pending"
    /\ jobs["a"].retry_at # NULL
    /\ jobs["a"].last_error = Some(ErrorMsg(RunnerResult(-1)))

\* C8: with one worker and no lease overrun, a job whose command always fails
\* is dead only after max_retries + 1 executions, attempts counting them.
C8_DeadAfterRetriesPlusOne ==
    \A id \in DOMAIN jobs :
        (/\ ~overrun
         /\ jobs[id].command \in {"false", "hang"}
         /\ jobs[id].state = "dead")
            => jobs[id].attempts = jobs[id].max_retries + 1

\* C9: no claim returns a job before the retry_at a failed attempt wrote.
C9_NoClaimBeforeRetryAt ==
    [][\A w \in Workers :
        (pc[w] = "idle" /\ pc'[w] = "increment")
            => \A t \in jobs[wjob'[w]].retry_at : t <= now
    ]_vars

\* C10: the retry_at a failed attempt writes is the time of the write plus
\* min(backoff_base ^ k, max_backoff_seconds), k being the job's attempts, the
\* count after the increment of that execution: with base 2 and cap 300, 2 s
\* after the first failure and 4 s after the second.
C10_RetryAtIsBackoff ==
    [][\A w \in SoloWorkers :
        (pc[w] = "f_retry_at" /\ pc'[w] = "f_state")
            => LET k == jobs[wjob[w]].attempts
                   base == Config_get_int(config, "backoff_base")
                   cap == Config_get_int(config, "max_backoff_seconds")
                   delay == IF Pow(base, k) < cap THEN Pow(base, k) ELSE cap
               IN /\ k >= 1
                  /\ jobs'[wjob[w]].retry_at = Some(now + delay)
                  /\ (base = 2 /\ cap = 300 /\ k = 1)
                        => jobs'[wjob[w]].retry_at = Some(now + 2)
                  /\ (base = 2 /\ cap = 300 /\ k = 2)
                        => jobs'[wjob[w]].retry_at = Some(now + 4)
    ]_vars

\* C10 witness: a job with max_retries = 3 failed twice, at times 0 and 1 with
\* retry_at 0 + 2 and then 1 + 4, and then succeeded: completed, attempts = 3.
C10_Witness ==
    /\ "a" \in DOMAIN jobs
    /\ "max_backoff_seconds" \notin DOMAIN config
    /\ jobs["a"].max_retries = 3
    /\ jobs["a"].state = "completed"
    /\ jobs["a"].attempts = 3
    /\ jobs["a"].retry_at = Some(5)
    /\ jobs["a"].exit_code = Some(0)

\* C11: completed is terminal and dead changes only through requeue: no step
\* changes the state of a completed job, and only requeue_from_dlq's write
\* changes the state of a dead job.
C11_TerminalStatesStay ==
    [][\A id \in DOMAIN jobs :
        /\ jobs[id].state = "completed" => jobs'[id].state = "completed"
        /\ (jobs[id].state = "dead" /\ jobs'[id].state # "dead")
              => RequeueReturnsTrue(id)
    ]_vars

\* C12: every job a claim returns was eligible when it was claimed: pending,
\* run_at null or reached, and unlocked or locked for longer than the lease.
C12_ClaimedWasEligible ==
    [][\A w \in Workers :
        (pc[w] = "idle" /\ pc'[w] = "increment")
            => LET row == jobs[wjob'[w]]
                   lease == Config_get_int(config, "lock_lease_seconds")
               IN /\ row.state = "pending"
                  /\ \A ra \in row.run_at : ra <= now
                  /\ \/ row.locked_by = NULL
                     \/ \E la \in row.locked_at : la + lease < now
    ]_vars

\* C12 witness: job b with run_at = 2 was claimed, at time 2 or later, while
\* job a, pending and not yet unlocked by the worker that put it back, was
\* passed over.
C12_Witness ==
    /\ DOMAIN jobs = {"a", "b"}
    /\ jobs["b"].run_at = Some(SchedRunAt)
    /\ jobs["b"].state = "processing" /\ jobs["b"].locked_by = Some(102)
    /\ pc[102] = "increment" /\ wjob[102] = "b"
    /\ jobs["a"].state = "pending" /\ jobs["a"].locked_by = Some(101)
    /\ pc[101] = "f_unlock"

\* C13: a claim leaves behind no eligible job of strictly higher priority, and
\* none of equal priority that was created strictly earlier.
C13_ClaimTakesBestRanked ==
    [][\A w \in Workers :
        (pc[w] = "idle" /\ pc'[w] = "increment")
            => LET got == jobs[wjob'[w]]
                   lease == Config_get_int(config, "lock_lease_seconds")
               IN \A other \in EligibleIds(jobs, now, lease) :
                    /\ jobs[other].priority <= got.priority
                    /\ jobs[other].priority = got.priority
                          => ~TimeBefore(jobs[other].created_at, got.created_at)
    ]_vars

\* C14: a job in processing whose lock is older than the lease is returned by
\* a claim made then, when no other job is eligible.
C14_StaleLockIsClaimable ==
    \A id \in DOMAIN jobs :
        LET lease == Config_get_int(config, "lock_lease_seconds") IN
        (/\ jobs[id].state = "processing"
         /\ \E la \in jobs[id].locked_at : la + lease < now
         /\ EligibleIds(jobs, now, lease) \subseteq {id})
            => id \in SelectPending(jobs, now, lease)

\* C15: a job held in processing by a killed worker is eventually claimed by
\* the worker that keeps running, with no status command run by anyone.
C15_KilledWorkersJobIsReclaimed ==
    \A id \in JobIds :
        (/\ id \in DOMAIN jobs
         /\ pc[101] = "dead"
         /\ jobs[id].state = "processing"
         /\ jobs[id].locked_by = Some(101))
            ~> (id \in DOMAIN jobs /\ jobs[id].locked_by = Some(102))

C17_MoveThenRequeue ==
    /\ [](\A id \in DOMAIN jobs :
            LET m == move_to_dlq(jobs, dlq, id, <<"reason">>, now)
                r == requeue_from_dlq(m.jobs, m.dlq, id)
            IN /\ r.ok
               /\ r.jobs[id] = [jobs[id] EXCEPT !.state = "pending", !.attempts = 0,
                                    !.retry_at = NULL, !.locked_by = NULL,
                                    !.locked_at = NULL]
               /\ ~InDlq(r.dlq, id))
    /\ [][\A id \in JobIds :
            RequeueReturnsTrue(id)
                => /\ jobs'[id].state = "pending" /\ jobs'[id].attempts = 0
                   /\ jobs'[id].retry_at = NULL
                   /\ jobs'[id].locked_by = NULL /\ jobs'[id].locked_at = NULL
                   /\ DlqEntriesOf(id) # {}
                   /\ ~InDlq(dlq', id)
       ]_vars

\* C17 witness: a job that timed out, was moved to the dlq by its worker and
\* was then requeued: pending, attempts = 0, no dlq entry.
C17_Witness ==
    /\ "a" \in DOMAIN jobs
    /\ jobs["a"].state = "pending" /\ jobs["a"].attempts = 0
    /\ jobs["a"].exit_code = Some(-1)
    /\ jobs["a"].retry_at = NULL /\ jobs["a"].locked_by = NULL
    /\ dlq = {} /\ rq[Operator] = {}
    /\ \A w \in Workers : pc[w] = "idle"

\* C18: requeue_from_dlq of a job that is not dead, or that the store does not
\* know, returns false and changes neither table.
C18_RequeueOnlyFromDead ==
    \A id \in JobIds \cup {"unknown"} :
        (id \in DOMAIN jobs => jobs[id].state # "dead")
            => LET r == requeue_from_dlq(jobs, dlq, id)
               IN ~r.ok /\ r.jobs = jobs /\ r.dlq = dlq

\* C19: a move_to_dlq that finds the job already dead inserts no dlq entry and
\* leaves the job row as it is.
C19_DeadIsNotMovedAgain ==
    [][\A w \in Workers :
        (/\ pc[w] = "f_dlq_write" /\ pc'[w] = "idle"
         /\ jobs[wjob[w]].state = "dead")
            => (dlq' = dlq /\ jobs' = jobs)
    ]_vars

\* C20: the success handling is entered for exit code 0 only, and when the
\* worker has finished it the job is completed with locked_by and locked_at
\* null, completed_at set, exit_code = 0 and the captured stdout and stderr
\* stored; a completed job that never failed has attempts = 1 (one worker).
C20_SuccessOutcome ==
    /\ [][\A w \in SoloWorkers :
            LET id == wjob[w] IN
            /\ (pc[w] = "output" /\ pc'[w] = "s_state") => wres[w].exit_code = 0
            /\ (pc[w] = "s_unlock" /\ pc'[w] = "idle")
                  => /\ jobs'[id].state = "completed"
                     /\ jobs'[id].locked_by = NULL /\ jobs'[id].locked_at = NULL
                     /\ jobs'[id].completed_at # NULL
                     /\ jobs'[id].exit_code = Some(0)
                     /\ jobs'[id].stdout_log = Some(wres[w].stdout)
                     /\ jobs'[id].stderr_log = Some(wres[w].stderr)
       ]_vars
    /\ [](\A id \in DOMAIN jobs :
            (jobs[id].state = "completed" /\ jobs[id].last_error = NULL)
                => jobs[id].attempts = 1)

\* C20 witness: the job with command "true" and max_retries = 3 is completed
\* after one execution, unlocked, with its output stored.
C20_Witness ==
    /\ "a" \in DOMAIN jobs
    /\ jobs["a"].command = "true" /\ jobs["a"].max_retries = 3
    /\ jobs["a"].state = "completed" /\ jobs["a"].attempts = 1
    /\ jobs["a"].exit_code = Some(0) /\ jobs["a"].stdout_log = Some("out")
    /\ jobs["a"].completed_at # NULL
    /\ jobs["a"].locked_by = NULL /\ jobs["a"].locked_at = NULL
    /\ pc[101] = "idle"

\* C21: once a worker's shutdown flag is set the worker claims no further
\* job; a job it is in the middle of is carried through to a recorded outcome
\* (the row leaves processing or the job is overtaken by another claim), and
\* then the worker's loop has ended.
C21_ShutdownStopsClaiming ==
    /\ [][\A w \in Workers :
            (pc[w] = "idle" /\ pc'[w] = "increment") => w \notin shutdown]_vars
    /\ \A w \in Workers : (w \in shutdown) ~> (pc[w] = "stopped")

\* the count get_job_counts gives for a state (none when no row has it)
CountOf(js, st) ==
    IF st \in DOMAIN get_job_counts(js) THEN get_job_counts(js)[st] ELSE 0

\* a clock reading later than that of every insert so far
NextStamp == now_timestamp(now, Cardinality(DOMAIN jobs) + 1)

\* C22: an insert of a new id x with command c creates exactly one row, which
\* get_job(x) returns with command c, state pending, attempts 0, the given
\* max_retries, no lock and no retry_at; no other row changes; the job is in
\* list_jobs and get_job_counts counts one more pending job. The same holds of
\* every step of the enqueue command that adds a row.
C22_EnqueueCreatesOneRow ==
    /\ [](\A x \in {"a", "b"} \ DOMAIN jobs, c \in Commands, mr \in 0..SoloMaxRetries :
            LET r == insert_job(jobs, x, c, mr, 0, NULL, NextStamp)
            IN  /\ r.ok
                /\ DOMAIN r.jobs = DOMAIN jobs \cup {x}
                /\ \E row \in get_job(r.jobs, x) :
                      /\ row.command = c /\ row.state = "pending"
                      /\ row.attempts = 0 /\ row.max_retries = mr
                      /\ row.locked_by = NULL /\ row.locked_at = NULL
                      /\ row.retry_at = NULL
                /\ \A o \in DOMAIN jobs : get_job(r.jobs, o) = get_job(jobs, o)
                /\ x \in list_jobs(r.jobs, NULL, ListLimit)
                /\ x \in list_jobs(r.jobs, Some("pending"), ListLimit)
                /\ CountOf(r.jobs, "pending") = CountOf(jobs, "pending") + 1
                /\ \A st \in {"processing", "completed", "failed", "dead"} :
                      CountOf(r.jobs, st) = CountOf(jobs, st))
    /\ [][DOMAIN jobs' # DOMAIN jobs =>
            \E x \in DOMAIN jobs' \ DOMAIN jobs :
                /\ DOMAIN jobs' = DOMAIN jobs \cup {x}
                /\ jobs'[x].state = "pending" /\ jobs'[x].attempts = 0
                /\ jobs'[x].locked_by = NULL /\ jobs'[x].locked_at = NULL
                /\ jobs'[x].retry_at = NULL
                /\ \A o \in DOMAIN jobs : jobs'[o] = jobs[o]
                /\ x \in list_jobs(jobs', Some("pending"), ListLimit)
                /\ CountOf(jobs', "pending") = CountOf(jobs, "pending") + 1]_vars

\* job b has just been enqueued next to job a, which a worker has moved on
C22_Witness ==
    /\ DOMAIN jobs = {"a", "b"}
    /\ jobs["b"].state = "pending" /\ jobs["b"].attempts = 0
    /\ jobs["a"].state \in {"failed", "dead"}
    /\ TimeBefore(jobs["a"].created_at, jobs["b"].created_at)

\* C23: an enqueue whose id some row has, whatever that row's state, exits
\* with an error and leaves the jobs table as it was: the row of that id and
\* every other row.
C23_DuplicateIdIsRejected ==
    \A x \in DOMAIN jobs, form \in Forms, c \in {"true", "false"}, mr \in CliRetries,
       p \in CliPriorities, ra \in CliRunAts :
        LET r == enqueue(jobs, config, form, Some(x), Some(c), mr, p, ra,
                         "uuid", NextStamp)
        IN  r.code = 1 /\ r.jobs = jobs

\* both ids are taken, by a job a worker holds and a job that is dead
C23_Witness ==
    /\ DOMAIN jobs = {"a", "b"}
    /\ jobs["b"].state = "processing"
    /\ jobs["a"].state = "dead"

States == {"pending", "processing", "completed", "failed", "dead"}

\* C24: an enqueue with no command or an empty one, or with a priority below
\* 0 or above 10, exits with an error and leaves the jobs table as it was; and
\* every row has a priority in 0..10, a state of the five and attempts >= 0.
C24_BadSubmissionIsRejected ==
    /\ \A form \in Forms, x \in {"a", "b"}, mr \in CliRetries, ra \in CliRunAts :
        /\ \A c \in {NULL, Some("")}, p \in CliPriorities :
              enqueue(jobs, config, form, Some(x), c, mr, p, ra, "uuid", NextStamp)
                  = [code |-> 1, jobs |-> jobs]
        /\ \A p \in {Some(-1), Some(11)} :
              enqueue(jobs, config, form, Some(x), Some("true"), mr, p, ra, "uuid",
                      NextStamp) = [code |-> 1, jobs |-> jobs]
    /\ \A id \in DOMAIN jobs :
        /\ jobs[id].priority \in 0..10
        /\ jobs[id].state \in States
        /\ jobs[id].attempts >= 0

\* job a was accepted with priority 10 and has run out of retries while job b
\* is not yet enqueued
C24_Witness ==
    /\ DOMAIN jobs = {"a"}
    /\ jobs["a"].priority = 10
    /\ jobs["a"].state = "dead" /\ jobs["a"].attempts > 0

\* C25: an enqueue whose run_at is given and is no parseable timestamp is
\* rejected and creates no row, so that no row of the jobs table has a run_at
\* that datetime() cannot read.
C25_NoUnparseableRunAt ==
    \A id \in DOMAIN jobs : \A ra \in jobs[id].run_at : datetime(ra) # NULL

\* C26: in both forms of the command, the row an enqueue creates has the
\* max_retries the caller gave, for every value >= 0 and for 0 too, and the
\* configured max_retries when the caller gave none.
C26_ExplicitRetriesAreKept ==
    [][\A form \in Forms, mr \in CliRetries, p \in CliPriorities, ra \in CliRunAts :
          EnqueueCommand(form, Some("a"), Some("false"), mr, p, ra)
              => jobs'["a"].max_retries =
                    IF mr = NULL THEN Config_get_int(config, "max_retries")
                    ELSE ValueOf(mr)]_vars

MaxAttempts == 3
MaxBase == 3
MaxCap == 5

\* C27: for attempts >= 0, base >= 1 and max_backoff >= 1, calculate_backoff
\* is the smaller of base^attempts and max_backoff: 1 for attempts 0, base
\* times the uncapped value before it after that; 1, 2, 4 for attempts 0, 1, 2
\* with base 2 and the default cap; never above max_backoff; never falling as
\* attempts grows. And the retry_at a worker writes is the time of the write
\* plus that value for the row's attempts and the configured base and cap.
C27_BackoffIsCappedPower ==
    /\ [](/\ \A a \in 0..MaxAttempts, b \in 1..MaxBase, m \in 1..MaxCap :
              /\ calculate_backoff(a, b, m) <= m
              /\ calculate_backoff(a, b, m) >= 1
              /\ calculate_backoff(0, b, m) = 1
              /\ calculate_backoff(a + 1, b, m) >= calculate_backoff(a, b, m)
              /\ calculate_backoff(a, b, m) < m
                    => calculate_backoff(a + 1, b, m)
                          = (IF b * calculate_backoff(a, b, m) <= m
                             THEN b * calculate_backoff(a, b, m) ELSE m)
              /\ calculate_backoff(a, b, m) = m
                    => calculate_backoff(a + 1, b, m) = m
          /\ calculate_backoff(0, 2, 300) = 1
          /\ calculate_backoff(1, 2, 300) = 2
          /\ calculate_backoff(2, 2, 300) = 4)
    /\ [][\A w \in SoloWorkers :
            (pc[w] = "f_retry_at" /\ pc'[w] = "f_state" /\ wjob[w] \in DOMAIN jobs)
                => jobs'[wjob[w]].retry_at =
                      Some(now + calculate_backoff(
                                    wread[w].attempts,
                                    Config_get_int(config, "backoff_base"),
                                    Config_get_int(config, "max_backoff_seconds")))]_vars

\* a second failure with base 4 and cap 10: the retry is 10 s away, not 16
C27_Witness ==
    /\ "a" \in DOMAIN jobs
    /\ jobs["a"].attempts = 2
    /\ Config_get_int(config, "backoff_base") = 4
    /\ Config_get_int(config, "max_backoff_seconds") = 10
    /\ \E w \in SoloWorkers : pc[w] = "f_state"
    /\ \E ra \in jobs["a"].retry_at : ra = now + 10

\* the number a config value of ConfigValues is the numeral of
NumeralValue == (<<"2">> :> 2) @@ (<<"4">> :> 4) @@ (<<"1", "0">> :> 10)

AllConfigKeys == DOMAIN DEFAULT_CONFIG \cup {"no_such_key"}

\* C28: Config.get of a key gives the value of the latest set of that key,
\* and for a key never set the default of the five keys (3, 2, 300, 300,
\* 3600); get_int gives the same value as a number; a set of one key changes
\* the value of no other key, and no other step changes any value.
C28_ConfigGetReturnsLastSet ==
    /\ [](/\ \A key \in DOMAIN DEFAULT_CONFIG \ DOMAIN config :
                Config_get(config, key) = Some(DEFAULT_CONFIG[key])
          /\ "max_retries" \notin DOMAIN config
                => Config_get_int(config, "max_retries") = 3
          /\ "backoff_base" \notin DOMAIN config
                => Config_get_int(config, "backoff_base") = 2
          /\ "max_backoff_seconds" \notin DOMAIN config
                => Config_get_int(config, "max_backoff_seconds") = 300
          /\ "lock_lease_seconds" \notin DOMAIN config
                => Config_get_int(config, "lock_lease_seconds") = 300
          /\ "job_timeout_seconds" \notin DOMAIN config
                => Config_get_int(config, "job_timeout_seconds") = 3600)
    /\ [](\A key \in AllConfigKeys, value \in ConfigValues :
            LET after == Config_set(config, key, value)
            IN  /\ Config_get(after, key) = Some(value)
                /\ Config_get_int(after, key) = NumeralValue[value]
                /\ \A other \in AllConfigKeys \ {key} :
                      /\ Config_get(after, other) = Config_get(config, other)
                      /\ Config_get_int(after, other) = Config_get_int(config, other))
    /\ [][(\A key \in ConfigKeys, value \in ConfigValues : ~ConfigSet(key, value))
            => \A key \in AllConfigKeys :
                  Config_get(config', key) = Config_get(config, key)]_vars

\* backoff_base was set to 2, or left at it, for the first failure and then
\* set to 4; max_backoff_seconds was never set
C28_Witness ==
    /\ Config_get(config, "backoff_base") = Some(<<"4">>)
    /\ "max_backoff_seconds" \notin DOMAIN config
    /\ \E id \in DOMAIN jobs :
          jobs[id].attempts = 1 /\ jobs[id].retry_at = Some(now + 2)

\* C29: a claim that returns a job has changed that job's row and no other:
\* the row is processing, locked by the caller at the time of the claim, and
\* is otherwise as it was; no row is added or removed and the dlq is as it
\* was. A claim that finds no eligible row returns None and changes nothing.
C29_ClaimChangesOneRow ==
    /\ [](\A w \in Workers :
            LET lease == Config_get_int(config, "lock_lease_seconds")
            IN  \A r \in pick_pending_job(jobs, w, now, lease) :
                  /\ DOMAIN r.jobs = DOMAIN jobs
                  /\ EligibleIds(jobs, now, lease) = {}
                        => r.job = NULL /\ r.jobs = jobs
                  /\ EligibleIds(jobs, now, lease) # {} => r.job # NULL
                  /\ \A j \in r.job :
                        /\ r.jobs[j.id] = j.row
                        /\ j.row.state = "processing"
                        /\ j.row.locked_by = Some(w)
                        /\ j.row.locked_at = Some(now)
                        /\ j.row = [jobs[j.id] EXCEPT !.state = "processing",
                                                      !.locked_by = Some(w),
                                                      !.locked_at = Some(now)]
                        /\ \A o \in DOMAIN jobs \ {j.id} : r.jobs[o] = jobs[o])
    /\ [][\A w \in Workers :
            (pc[w] = "idle" /\ pc'[w] = "increment") =>
                /\ wjob'[w] \in DOMAIN jobs
                /\ DOMAIN jobs' = DOMAIN jobs
                /\ jobs'[wjob'[w]] = [jobs[wjob'[w]] EXCEPT !.state = "processing",
                                                            !.locked_by = Some(w),
                                                            !.locked_at = Some(now)]
                /\ \A o \in DOMAIN jobs \ {wjob'[w]} : jobs'[o] = jobs[o]
                /\ dlq' = dlq]_vars

\* a worker has just claimed job b while job a is dead with its dlq entry
C29_Witness ==
    /\ DOMAIN jobs = {"a", "b"}
    /\ \E w \in Workers : pc[w] = "increment" /\ wjob[w] = "b"
    /\ jobs["b"].state = "processing" /\ jobs["b"].locked_at = Some(now)
    /\ jobs["a"].state = "dead" /\ DlqEntriesOf("a") # {}

\* the processing rows whose lease has run out: locked_at + lease < now
StaleIds(lease) ==
    {id \in DOMAIN jobs : /\ jobs[id].state = "processing"
                           /\ \E la \in jobs[id].locked_at : la + lease < now}

\* C30: cleanup_expired_locks(lease) makes exactly the processing rows with
\* locked_at + lease < now pending with no lock and returns how many they
\* are; their attempts and every other row, the processing rows within their
\* lease among them, stay as they were; a second call at the same time
\* returns 0 and changes nothing. Every step of the status command that
\* changes a row is such a call, and leaves the dlq alone.
C30_CleanupReleasesExpiredLocks ==
    /\ [](LET lease == Config_get_int(config, "lock_lease_seconds")
              after == cleanup_expired_locks(jobs, now, lease)
          IN  /\ DOMAIN after = DOMAIN jobs
              /\ \A id \in StaleIds(lease) :
                    /\ after[id] = [jobs[id] EXCEPT !.state = "pending",
                                                    !.locked_by = NULL,
                                                    !.locked_at = NULL]
                    /\ after[id].attempts = jobs[id].attempts
              /\ \A id \in DOMAIN jobs \ StaleIds(lease) : after[id] = jobs[id]
              /\ cleanup_expired_locks_count(jobs, now, lease)
                    = Cardinality(StaleIds(lease))
              /\ cleanup_expired_locks(after, now, lease) = after
              /\ cleanup_expired_locks_count(after, now, lease) = 0)
    /\ [][(pc' = pc /\ DOMAIN jobs' = DOMAIN jobs /\ jobs' # jobs) =>
            /\ jobs' = cleanup_expired_locks(jobs, now,
                            Config_get_int(config, "lock_lease_seconds"))
            /\ dlq' = dlq]_vars

\* job a, claimed and never incremented, has been put back to pending under
\* its worker while job b, claimed at this second, is still processing
C30_Witness ==
    /\ DOMAIN jobs = {"a", "b"}
    /\ \E w \in Workers : pc[w] = "increment" /\ wjob[w] = "a"
    /\ jobs["a"].state = "pending" /\ jobs["a"].attempts = 0
    /\ jobs["a"].locked_by = NULL /\ jobs["a"].locked_at = NULL
    /\ jobs["b"].state = "processing" /\ jobs["b"].locked_at = Some(now)

\* C31: attempts goes up by exactly one at the start of every execution, the
\* step of _execute_job that comes before the command is run, and is set to 0
\* by requeue; no other step changes it (a release of an expired lock does
\* not), and a command is run only by a worker that has made that increment.
C31_AttemptsCountsExecutions ==
    /\ [][\A id \in DOMAIN jobs :
            (id \in DOMAIN jobs' /\ jobs'[id].attempts # jobs[id].attempts) =>
                \/ /\ jobs'[id].attempts = jobs[id].attempts + 1
                   /\ \E w \in Workers : /\ pc[w] = "increment" /\ wjob[w] = id
                                          /\ pc'[w] = "execute"
                \/ /\ jobs'[id].attempts = 0
                   /\ RequeueReturnsTrue(id)]_vars
    /\ [][\A w \in Workers :
            /\ (pc[w] = "increment" /\ pc'[w] = "execute" /\ wjob[w] \in DOMAIN jobs)
                  => jobs'[wjob[w]].attempts = jobs[wjob[w]].attempts + 1
            /\ pc'[w] = "execute" => pc[w] \in {"increment", "execute"}
            /\ (pc[w] # "output" /\ pc'[w] = "output") => pc[w] = "execute"]_vars

\* a worker is about to run the command for the second time, the job having
\* been handed out again after its lock was released
C31_Witness ==
    \E id \in DOMAIN jobs, w \in Workers :
        /\ pc[w] = "execute" /\ wjob[w] = id
        /\ jobs[id].attempts = 2
        /\ jobs[id].state = "processing"

\* C32: the move of a job that has used up its retries takes the row from
\* processing to dead with locked_by and locked_at NULL and adds one dlq
\* entry, whose reason is "Max retries exceeded: " and the last error and
\* whose payload is the row as it was at the move; the entries the dlq had
\* stay as they were.
C32_DeadLetterTransition ==
    [][\A w \in Workers :
        (pc[w] = "f_dlq_write" /\ pc'[w] # "f_dlq_write" /\ wjob[w] \in DOMAIN jobs') =>
            LET id == wjob[w]
            IN  /\ jobs[id].state = "processing"
                /\ jobs'[id].state = "dead"
                /\ jobs'[id].locked_by = NULL
                /\ jobs'[id].locked_at = NULL
                /\ dlq \subseteq dlq'
                /\ \E e \in dlq' \ dlq :
                      /\ dlq' = dlq \cup {e}
                      /\ e.job_id = id
                      /\ \E err \in jobs[id].last_error : e.reason = DlqReason(err)
                      /\ e.payload = jobs[id]]_vars

\* C33: in every state of the store and for every job, locked_by is NULL
\* exactly when locked_at is NULL.
C33_LockFieldsGoTogether ==
    \A id \in DOMAIN jobs :
        (jobs[id].locked_by = NULL) <=> (jobs[id].locked_at = NULL)

\* a job that died with its lock on it has been requeued, and a worker holds
\* it again
C33_Witness ==
    \E id \in DOMAIN jobs, w \in Workers :
        /\ jobs[id].state = "processing" /\ jobs[id].attempts = 0
        /\ jobs[id].last_error # NULL
        /\ jobs[id].locked_by = Some(w) /\ jobs[id].locked_at = Some(now)

\* C34: when a step of processing a claimed job has raised an exception, the
\* worker is back in its loop only after the failure outcome: the job is no
\* longer processing, its last_error is the exception's message, and it is
\* pending with a retry_at when attempts < max_retries and dead with exactly
\* one dlq entry otherwise; and the worker goes on with its loop.
C34_ExceptionIsFailureOutcome ==
    [][\A w \in Workers :
        (werr[w] # NULL /\ werr'[w] = NULL /\ wjob[w] \in DOMAIN jobs') =>
            LET id == wjob[w]
            IN  /\ pc'[w] = "idle"
                /\ jobs'[id].state \in {"pending", "dead"}
                /\ jobs'[id].last_error = werr[w]
                /\ jobs'[id].state = "pending"
                      => /\ jobs'[id].retry_at # NULL
                         /\ jobs'[id].attempts < jobs'[id].max_retries
                /\ jobs'[id].state = "dead"
                      => /\ jobs'[id].attempts >= jobs'[id].max_retries
                         /\ Cardinality({e \in dlq' : e.job_id = id}) = 1]_vars

\* the pending rows whose retry_at has come
RetryReadyIds ==
    {id \in DOMAIN jobs : /\ jobs[id].state = "pending"
                           /\ \E ra \in jobs[id].retry_at : ra <= now}

\* C35: move_ready_jobs_to_pending leaves every pending row whose retry_at is
\* at or before now pending with retry_at, locked_by and locked_at NULL; it
\* changes no state, no attempts and no other row; and a second call at the
\* same time changes nothing more.
C35_PromotionClearsRetryAt ==
    LET after == move_ready_jobs_to_pending(jobs, now)
    IN  /\ DOMAIN after = DOMAIN jobs
        /\ \A id \in RetryReadyIds :
              after[id] = [jobs[id] EXCEPT !.retry_at = NULL, !.locked_by = NULL,
                                          !.locked_at = NULL]
        /\ \A id \in DOMAIN jobs \ RetryReadyIds : after[id] = jobs[id]
        /\ move_ready_jobs_to_pending(after, now) = after

\* the positions from which a worker's next call writes an outcome
OutcomePcs == {"output", "s_state", "s_completed_at", "s_unlock", "f_error",
               "f_retry_at", "f_state", "f_unlock", "f_dlq_write"}

\* C36: a write with which worker w records an outcome changes the job's row
\* or the dlq only if the row is held by w at that moment: locked_by is w's
\* pid, by the claim w made, and the first of the writes finds the row
\* processing. So w's unlock_job never clears another worker's lock, and a
\* late outcome never replaces what the current owner wrote.
C36_OutcomeWritesAreGuarded ==
    [][\A w \in Workers :
        (/\ pc[w] \in OutcomePcs /\ pc'[w] # pc[w]
         /\ wjob[w] \in DOMAIN jobs
         /\ (jobs'[wjob[w]] # jobs[wjob[w]] \/ dlq' # dlq)) =>
            /\ jobs[wjob[w]].locked_by = Some(w)
            /\ jobs[wjob[w]].locked_at = Some(claimedAt[w])
            /\ pc[w] = "output" => jobs[wjob[w]].state = "processing"]_vars

\* ------------------------------------------- two dlq retry commands at once
\* Two operators run `queuectl dlq retry` while one worker runs jobs that fail
\* at once into the dlq.
RetryNext ==
    \/ Tick
    \/ \E c \in {"false", "true"}, mr \in {0, SoloMaxRetries} :
            Enqueue("a", c, mr, 0, NULL, 1)
    \/ \E w \in SoloWorkers : WorkerStep(w)
    \/ \E c \in RetryCallers : RequeueLookup(c, "a")
    \/ \E c \in RetryCallers : RequeueWrite(c, "a")

SpecRetry == Init /\ [][RetryNext]_vars

\* C37: of two requeue_from_dlq calls on the same dead job whose lookups and
\* writes interleave, at most one returns true (a call that returns true is
\* one whose own UPDATE and DELETE took the job out of the dlq: the job was
\* dead and had an entry when it wrote), and after a call that returns true
\* the job is pending with attempts = 0 and has no dlq entry.
C37_ConcurrentRequeueOnce ==
    [][\A id \in JobIds :
        RequeueReturnsTrue(id) =>
            /\ InDlq(dlq, id) /\ jobs[id].state = "dead"
            /\ jobs'[id].state = "pending" /\ jobs'[id].attempts = 0
            /\ ~InDlq(dlq', id)]_vars

\* C38: in every committed state a completed job carries the output of a
\* successful execution: exit_code = 0 with the stdout and stderr the runner
\* gives for exit code 0; and no step replaces the exit code of a completed
\* job with a non-zero one.
C38_CompletedKeepsSuccessOutput ==
    /\ [](\A id \in DOMAIN jobs :
            jobs[id].state = "completed" =>
                /\ jobs[id].exit_code = Some(0)
                /\ jobs[id].stdout_log = Some(RunnerResult(0).stdout)
                /\ jobs[id].stderr_log = Some(RunnerResult(0).stderr))
    /\ [][\A id \in DOMAIN jobs :
            (jobs[id].state = "completed" /\ id \in DOMAIN jobs')
                => jobs'[id].exit_code = Some(0)]_vars

\* the processing jobs whose locked_by is the pid of worker w
ProcessingOf(w) ==
    {id \in DOMAIN jobs : jobs[id].state = "processing" /\ jobs[id].locked_by = Some(w)}

\* C39: at most one processing job is locked by a given live worker, and a
\* worker claims a job only when no processing job is locked by it: its
\* handling of the previous job has taken that job out of processing.
C39_OneJobPerWorker ==
    /\ [](\A w \in Workers :
            pc[w] # "dead" => Cardinality(ProcessingOf(w)) <= 1)
    /\ [][\A w \in Workers :
            (pc[w] = "idle" /\ pc'[w] = "increment") => ProcessingOf(w) = {}]_vars

\* ------------------------------------------- every command and the delete
\* Two workers, every operator command, and the administrative delete
AdminNext ==
    \/ Tick
    \/ \E id \in JobIds, mr \in {0, MaxRetries} : Enqueue(id, "flaky", mr, 0, NULL, 1)
    \/ \E w \in Workers : WorkerStep(w)
    \/ Maintenance
    \/ Requeue
    \/ \E id \in JobIds : DeleteJob(id)

SpecAdmin == Init /\ [][AdminNext]_vars

\* the columns that say what the job is
IdentityOf(row) ==
    [command |-> row.command, max_retries |-> row.max_retries,
     priority |-> row.priority, run_at |-> row.run_at,
     created_at |-> row.created_at]

\* C40: no step changes the command, max_retries, priority, run_at or
\* created_at of a job (the id is the key of the row); a step that adds a row
\* is an enqueue (one new pending row, no worker, requeue or dlq change) and
\* a step that removes a row is the administrative delete of that row (no
\* worker, requeue or dlq change): no claim, worker outcome, promotion, lease
\* reclamation, move to the dlq or requeue adds or removes a row.
C40_IdentityAndRowsAreKept ==
    [][/\ \A id \in DOMAIN jobs \cap DOMAIN jobs' :
              IdentityOf(jobs'[id]) = IdentityOf(jobs[id])
       /\ \A id \in DOMAIN jobs' \ DOMAIN jobs :
              /\ jobs' = (id :> jobs'[id]) @@ jobs
              /\ jobs'[id].state = "pending" /\ jobs'[id].attempts = 0
              /\ UNCHANGED <<pc, rq, dlq, now>>
       /\ \A id \in DOMAIN jobs \ DOMAIN jobs' :
              /\ jobs' = delete_job(jobs, dlq, id)
              /\ UNCHANGED <<pc, rq, dlq, now>>]_vars

\* C40 witness: job a, enqueued with max_retries = MaxRetries, has been
\* claimed, has failed until it was dead and has been requeued: it is pending
\* with attempts = 0 and the output of its last run, and is what was enqueued.
C40_Witness ==
    /\ "a" \in DOMAIN jobs
    /\ jobs["a"].state = "pending" /\ jobs["a"].attempts = 0
    /\ jobs["a"].exit_code = Some(1) /\ jobs["a"].last_error # NULL
    /\ dlq = {}
    /\ IdentityOf(jobs["a"]) =
          IdentityOf(NewJob("flaky", MaxRetries, 0, NULL, jobs["a"].created_at))
    /\ jobs["a"].created_at.usec = 1
====
